---------------------------- MODULE Spec2Model ----------------------------
(***************************************************************************)
(* Model of the key transfer command (transferF) of the cryft CLI: the     *)
(* resumable cross-chain transfer orchestrator.  One invocation of the     *)
(* command is one run of transferF over the process-wide flag variables;   *)
(* the operator may re-invoke the command with the recovery step the       *)
(* failed invocation reported.                                             *)
(***************************************************************************)
EXTENDS Integers, Sequences, FiniteSets, TLC

(***************************************************************************)
(* Program constants.                                                      *)
(***************************************************************************)
wrongLedgerIndexVal == 32768
\* units.Avax: nAVAX in one AVAX.
Avax == 1000000000

(***************************************************************************)
(* Bounds of the model.                                                    *)
(***************************************************************************)
\* Largest value of --receive-recovery-step the operator passes.
MaxCursor == 3
\* Number of invocations of the command in one behaviour.
MaxInvocations == 2
\* the precompile upgrades the wizard is followed through
MaxUpgrades == 6
\* the addresses of one list, and the times the address prompts start over
MaxList == 2
MaxRounds == 2

(***************************************************************************)
(* Input domains.                                                          *)
(***************************************************************************)
\* Names in the key store ("" is the flag's default: no key name given).
KeyNames == {"", "k1"}
\* Ledger indices the operator passes by flag or types at the prompt.
LedgerIndices == {0, wrongLedgerIndexVal}
\* Short IDs of the addresses that exist.
Addrs == {1, 2}
\* Values of --target-addr ("" is the flag's default).
AddrStrs == {"", "P-a1", "X-a2", "bad"}
\* Values of --amount, and the values the operator types at the amount
\* prompt.  An amount is a decimal with at most 9 fractional digits and is
\* written as the count n of its nAVAX: n is the amount n / 10^9 AVAX (0 is
\* the flag's default, -500000000 is -0.5 AVAX, 1500000000 is 1.5 AVAX).
AmountFlts == {0 - Avax \div 2, 0, Avax + Avax \div 2}
\* The amounts of the specification of the conversion: 0.000000001,
\* 0.000000015, 0.000000016, 0.001, 1.001, 1.5 and 2 AVAX.
ConvAmountFlts ==
    {1, 15, 16, Avax \div 1000, Avax + Avax \div 1000, Avax + Avax \div 2,
     2 * Avax}
\* Transaction fees of the networks (GenesisParams().TxFee), in nAVAX.
TxFees == {0, 1, 10, 1000000}

VARIABLES
    \* the flag variables of the command (package-level variables)
    send, receive, keyName, ledgerIndex, force, receiverAddrStr, amountFlt,
    receiveRecoveryStep, PToX, PToP,
    \* what the operator typed: whether --ledger and --key were given, and
    \* the recovery step
    cmdline,
    \* position of transferF and its locals
    pc, networkOK, amount, fee, kc, receiverAddr, conf,
    \* what the invocation has done so far
    confirmAsked, wallets, built, signed, issued, inflight, outcome,
    \* the output owners each operation was built with
    owners,
    \* how the invocation ended and what it printed for the operator
    result, retAt, resumeMsg, resumeStep,
    \* the ledger (how many operations of each kind it accepted) and the
    \* history of the invocations: the operations some invocation saw
    \* acknowledged, those the ledger accepted while the call timed out, and
    \* those issued again after the ledger had accepted one
    accepted, invocations, chain, acked, lost, reissued, reissuedAcked,
    \* for each kind of operation the amount its last accepted instance put
    \* at its destination (0 when none was accepted)
    carried,
    \* the fee of the network, the total fee the summary prints and the
    \* amount the export of a send carries
    txFee, totalFee, amountPlusFee,
    \* the call the invocation is blocked in for ever ("none" when it is not),
    \* and for each operation whether the context of its IssueTx call had
    \* expired when the call returned
    hungAt, expired,
    \* the fields the summary has printed for the operator
    shown,
    \* a second invocation of the command running at the same time: whether
    \* it runs in the process of the first, its position, the recovery step
    \* of its own process, the operations it submitted and the step its
    \* notice reported
    sameProcess, pcB, cursorB, issuedB, resumeB,
    \* the start of the local network: the sidecars created, the node version
    \* the user asked for, and what determineAvagoVersion returned ("none"
    \* before the call)
    sidecars, userAvago, avagoVersion, avagoErr,
    \* the 64-bit sums of the amounts: the amount and the fee as uint64
    \* values with the direction and the destination, and the output amount
    \* computed from them (the empty tuple before it is computed)
    sumIn, sumOut,
    \* the upgrade-generate wizard: its position, the precompiles still
    \* offered, the one selected, the precompile upgrades configured so far,
    \* the list written to the upgrade file (empty while none is written) and
    \* what the command returned
    wpc, allPreComps, precomp, precompiles, upgradeFile, wresult,
    \* promptAdminManagerAndEnabledAddresses: its position, the three address
    \* lists, how often the loop has started over and what it returned
    apc, admin, manager, enabled, rounds, aresult

flagVars == <<send, receive, keyName, ledgerIndex, force, receiverAddrStr,
              amountFlt, receiveRecoveryStep, PToX, PToP>>
localVars == <<networkOK, amount, fee, kc, receiverAddr, conf>>
doneVars == <<confirmAsked, wallets, built, signed, issued, inflight, outcome,
              owners>>
endVars == <<result, retAt, resumeMsg, resumeStep>>
histVars == <<accepted, invocations, chain, acked, lost, reissued, reissuedAcked,
              carried>>
feeVars == <<txFee, totalFee, amountPlusFee>>
callVars == <<hungAt, expired>>
pairVars == <<sameProcess, pcB, cursorB, issuedB, resumeB>>
avagoVars == <<sidecars, userAvago, avagoVersion, avagoErr>>
sumVars == <<sumIn, sumOut>>
wizardVars == <<wpc, allPreComps, precomp, precompiles, upgradeFile, wresult>>
addrVars == <<apc, admin, manager, enabled, rounds, aresult>>
otherVars == <<sumVars, wizardVars, addrVars>>
sideVars == <<pairVars, avagoVars, otherVars>>
auxVars == <<shown, sideVars>>
vars == <<flagVars, cmdline, pc, localVars, doneVars, endVars, histVars,
          feeVars, callVars, auxVars>>

(***************************************************************************)
(* Operations of the transfer: the export of a send and the three steps of *)
(* a receive.                                                              *)
(***************************************************************************)
Ops == {"ExportPX", "ImportX", "ExportXP", "ImportP"}

\* The operation that receive step k issues.
StepOp(k) ==
    CASE k = 0 -> "ImportX"
      [] k = 1 -> "ExportXP"
      [] OTHER -> "ImportP"

\* address.ParseToID: the short ID of an address string, 0 when it does not parse.
ParseToID(s) ==
    CASE s = "P-a1" -> 1
      [] s = "P-a2" -> 2
      [] s = "X-a2" -> 2
      [] OTHER -> 0

\* address.Format("P", hrp, addr): the P-Chain address string of a short ID.
FormatP(a) == IF a = 1 THEN "P-a1" ELSE "P-a2"

NoKeychain == [ledger |-> FALSE, addr |-> 0]

\* lines 468-471: to := secp256k1fx.OutputOwners{Threshold: 1,
\* Addrs: []ids.ShortID{receiverAddr}}; NoOwners stands for an operation
\* that was not built.
OutputOwners(rcv) == [threshold |-> 1, addrs |-> <<rcv>>]
NoOwners == [threshold |-> 0, addrs |-> <<>>]


(***************************************************************************)
(* Init: the process has started and cobra has parsed the command line     *)
(* into the flag variables; transferF has not run yet.                     *)
(***************************************************************************)
Fresh ==
    /\ pc = "start"
    /\ networkOK = FALSE /\ amount = 0 /\ fee = 0
    /\ kc = NoKeychain /\ receiverAddr = 0 /\ conf = FALSE
    /\ confirmAsked = 0 /\ wallets = 0
    /\ built = <<>> /\ signed = <<>> /\ issued = <<>>
    /\ owners = [o \in Ops |-> NoOwners]
    /\ inflight = "none"
    /\ outcome = [o \in Ops |-> "none"]
    /\ result = "none" /\ retAt = "none"
    /\ resumeMsg = "none" /\ resumeStep = 0
    /\ totalFee = 0 /\ amountPlusFee = 0
    /\ hungAt = "none"
    /\ expired = [o \in Ops |-> FALSE]
    /\ shown = {}

\* The flag variables after cobra has parsed the command line, and the
\* history of a first invocation.
FlagsOf(amounts) ==
    /\ send \in BOOLEAN /\ receive \in BOOLEAN
    /\ keyName \in KeyNames
    /\ receiveRecoveryStep \in 0..MaxCursor
    /\ \E given \in BOOLEAN :
          /\ ledgerIndex \in (IF given THEN LedgerIndices ELSE {wrongLedgerIndexVal})
          /\ cmdline = [ledger |-> given, key |-> keyName # "",
                        step |-> receiveRecoveryStep]
    /\ force \in BOOLEAN
    /\ receiverAddrStr \in AddrStrs
    /\ amountFlt \in amounts
    /\ PToX \in BOOLEAN /\ PToP \in BOOLEAN
    /\ Fresh
    /\ accepted = [o \in Ops |-> 0]
    /\ carried = [o \in Ops |-> 0]
    /\ invocations = 1
    /\ chain = (receiveRecoveryStep = 0)
    /\ acked = {} /\ lost = {} /\ reissued = {}
    /\ reissuedAcked = FALSE

Flags == FlagsOf(AmountFlts)

\* The wizard is not run.
NoWizard ==
    /\ wpc = "idle" /\ allPreComps = <<>> /\ precomp = ""
    /\ precompiles = <<>> /\ upgradeFile = <<>> /\ wresult = "none"

\* The addresses are not asked for.
NoAddresses ==
    /\ apc = "idle" /\ admin = <<>> /\ manager = <<>> /\ enabled = <<>>
    /\ rounds = 0 /\ aresult = "none"

\* No amounts are summed.
NoSum ==
    /\ sumIn = <<>> /\ sumOut = <<>>

\* Nothing but the transfer command runs.
NoOther == NoSum /\ NoWizard /\ NoAddresses

\* The local network is not started.
NoStart ==
    /\ sidecars = {} /\ userAvago = "latest"
    /\ avagoVersion = "none" /\ avagoErr = FALSE
    /\ NoOther

\* No second invocation runs.
Alone ==
    /\ sameProcess = FALSE /\ pcB = "idle" /\ cursorB = 0
    /\ issuedB = <<>> /\ resumeB = 0
    /\ NoStart

\* The command runs against a network whose fee is 10 nAVAX.
Init == Flags /\ txFee = 10 /\ Alone

\* transferF returns from position pc: res is "nil" for a nil error, else the
\* kind of the error.
Return(res) == pc' = "done" /\ result' = res /\ retAt' = pc

\* StepPc without the tests of receiveRecoveryStep: every step from k on runs.
StepPcNoTest(k, c) ==
    CASE k = 0 -> "r0_wallet"
      [] k = 1 -> "r1_wallet"
      [] OTHER -> "r2_wallet"

\* StepPc with cursor 2 taken for the end of the workflow.
StepPcTwoTerminal(k, c) ==
    IF c < k \/ c > 1 THEN "ret"
    ELSE CASE c = 0 -> "r0_wallet"
           [] OTHER -> "r1_wallet"

\* The position of the receive workflow after the test of step k-1 fell
\* through: the first of the tests `receiveRecoveryStep == j`, j >= k, that
\* cursor c passes, else the final return.
StepPc(k, c) ==
    IF c < k \/ c > 2 THEN "ret"
    ELSE CASE c = 0 -> "r0_wallet"
           [] c = 1 -> "r1_wallet"
           [] OTHER -> "r2_wallet"

\* keyName != "" && ledgerIndex != wrongLedgerIndexVal
CredentialConflict(k, l) == k # "" /\ l # wrongLedgerIndexVal

\* ledgerIndex != wrongLedgerIndexVal: the ledger indication passed to the
\* step executors and used for the sign notices.
UsingLedger(l) == l # wrongLedgerIndexVal

\* BothDirections with the test left out.
BothDirectionsNever(s, r) == FALSE

\* line 297: if send && receive
BothDirections(s, r) == s /\ r

\* lines 297-303: the two flag checks.
CheckFlags ==
    /\ pc = "start"
    /\ IF BothDirections(send, receive)
         THEN Return("BothDirections")
         ELSE IF CredentialConflict(keyName, ledgerIndex)
                THEN Return("CredentialConflict")
                ELSE pc' = "network" /\ UNCHANGED <<result, retAt>>
    /\ UNCHANGED <<flagVars, cmdline, localVars, doneVars, resumeMsg,
                   resumeStep, histVars, feeVars, callVars,
                   auxVars>>

\* lines 305-314: networkoptions.GetNetworkFromCmdLineFlags.
GetNetwork ==
    /\ pc = "network"
    /\ \E ok \in BOOLEAN :
          IF ok THEN /\ networkOK' = TRUE
                     /\ pc' = "direction"
                     /\ UNCHANGED <<result, retAt>>
                ELSE /\ Return("NetworkError")
                     /\ UNCHANGED networkOK
    /\ UNCHANGED <<flagVars, cmdline, amount, fee, kc, receiverAddr, conf,
                   doneVars, resumeMsg, resumeStep, histVars, feeVars, callVars,
                   auxVars>>

\* lines 316-329: the direction prompt, asked when neither flag is set.
ResolveDirection ==
    /\ pc = "direction"
    /\ IF ~send /\ ~receive
         THEN \E option \in {"Send", "Receive", "err"} :
                 IF option = "err"
                   THEN Return("PromptError") /\ UNCHANGED <<send, receive>>
                   ELSE /\ IF option = "Send"
                              THEN send' = TRUE /\ UNCHANGED receive
                              ELSE receive' = TRUE /\ UNCHANGED send
                        /\ pc' = "chain" /\ UNCHANGED <<result, retAt>>
         ELSE pc' = "chain" /\ UNCHANGED <<send, receive, result, retAt>>
    /\ UNCHANGED <<keyName, ledgerIndex, force, receiverAddrStr, amountFlt,
                   receiveRecoveryStep, PToX, PToP, cmdline, localVars,
                   doneVars, resumeMsg, resumeStep, histVars, feeVars, callVars,
                   auxVars>>

\* lines 331-344: the destination chain prompt, asked when neither flag is set.
ResolveChain ==
    /\ pc = "chain"
    /\ IF ~PToP /\ ~PToX
         THEN \E option \in {"P-Chain", "X-Chain", "err"} :
                 IF option = "err"
                   THEN Return("PromptError") /\ UNCHANGED <<PToP, PToX>>
                   ELSE /\ IF option = "P-Chain"
                              THEN PToP' = TRUE /\ UNCHANGED PToX
                              ELSE PToX' = TRUE /\ UNCHANGED PToP
                        /\ pc' = "signer" /\ UNCHANGED <<result, retAt>>
         ELSE pc' = "signer" /\ UNCHANGED <<PToP, PToX, result, retAt>>
    /\ UNCHANGED <<send, receive, keyName, ledgerIndex, force,
                   receiverAddrStr, amountFlt, receiveRecoveryStep, cmdline,
                   localVars, doneVars, resumeMsg, resumeStep, histVars, feeVars, callVars,
                   auxVars>>

\* lines 346-364: the key-or-ledger prompt, asked when neither was given.
ResolveSigner ==
    /\ pc = "signer"
    /\ IF keyName = "" /\ ledgerIndex = wrongLedgerIndexVal
         THEN \/ \* prompts.GetFujiKeyOrLedger fails
                 Return("PromptError") /\ UNCHANGED <<keyName, ledgerIndex>>
              \/ \* a stored key is chosen
                 /\ keyName' \in KeyNames \ {""}
                 /\ pc' = "amount" /\ UNCHANGED <<ledgerIndex, result, retAt>>
              \/ \* the ledger is chosen and CaptureUint32 fails
                 Return("PromptError") /\ UNCHANGED <<keyName, ledgerIndex>>
              \/ \* the ledger is chosen: CaptureUint32 gives the index
                 /\ ledgerIndex' \in LedgerIndices
                 /\ pc' = "amount" /\ UNCHANGED <<keyName, result, retAt>>
         ELSE pc' = "amount" /\ UNCHANGED <<keyName, ledgerIndex, result, retAt>>
    /\ UNCHANGED <<send, receive, force, receiverAddrStr, amountFlt,
                   receiveRecoveryStep, PToX, PToP, cmdline, localVars,
                   doneVars, resumeMsg, resumeStep, histVars, feeVars, callVars,
                   auxVars>>

\* The amounts n / 10^9 AVAX, among those modelled, whose float64 product
\* with float64(units.Avax) is below n: the float64 nearest to 0.000000015
\* times 10^9 is 14.999999999999998 and the float64 nearest to 1.001 times
\* 10^9 is 1000999999.9999999.  For the other amounts modelled the product
\* is n exactly.
ProductBelow == {15, Avax + Avax \div 1000}

\* uint64(amountFlt * float64(units.Avax)) for the amount n / 10^9 AVAX: the
\* conversion to uint64 drops the fraction of the product.
AmountToNano(n) == IF n \in ProductBelow THEN n - 1 ELSE n

\* The amount as the summary prints it, "%.9f" of
\* float64(amount) / float64(units.Avax), as a count of nAVAX: below 2^53
\* the quotient is within 10^-6 nAVAX of a / 10^9, which nine fractional
\* digits print as a.
DisplayNano(a) == a

\* uint64(x) of an integral float64 x.  For x < 0 Go leaves the result to
\* the implementation: it saturates to 0 (arm64) or wraps to 2^64 + x
\* (amd64).  A uint64 of 2^63 and above is written v - 2^64 here, so that
\* 2^64 + x is written x and sums stay exact modulo 2^64.
Uint64Of(x) == IF x < 0 THEN {0, x} ELSE {x}

\* lines 366-385: the amount prompt, asked when the flag is 0; its validator
\* accepts only v > 0.  Then the conversion and the fee of the network.
ResolveAmount ==
    /\ pc = "amount"
    /\ \/ /\ amountFlt = 0
          /\ \/ Return("PromptError") /\ UNCHANGED <<amountFlt, amount, fee>>
             \/ /\ amountFlt' \in {v \in AmountFlts : ~(v <= 0)}
                /\ amount' \in Uint64Of(AmountToNano(amountFlt'))
                /\ fee' = txFee
                /\ pc' = "keychain" /\ UNCHANGED <<result, retAt>>
       \/ /\ amountFlt # 0
          /\ amount' \in Uint64Of(AmountToNano(amountFlt))
          /\ fee' = txFee
          /\ pc' = "keychain" /\ UNCHANGED <<amountFlt, result, retAt>>
    /\ UNCHANGED <<send, receive, keyName, ledgerIndex, force,
                   receiverAddrStr, receiveRecoveryStep, PToX, PToP, cmdline,
                   networkOK, kc, receiverAddr, conf, doneVars, resumeMsg,
                   resumeStep, histVars, feeVars, callVars,
                   auxVars>>

\* lines 387-405: the keychain of the stored key when a key name is set,
\* else of the ledger device.  The first address of the keychain is whatever
\* the key file or the device holds.
LoadKeychain ==
    /\ pc = "keychain"
    /\ \/ \* key.LoadSoft, ledger.New or NewLedgerKeychainFromIndices fails
          Return(IF keyName # "" THEN "KeyError" ELSE "SignerUnavailable")
          /\ UNCHANGED kc
       \/ /\ \E a \in Addrs : kc' = [ledger |-> keyName = "", addr |-> a]
          /\ pc' = "receiver" /\ UNCHANGED <<result, retAt>>
    /\ UNCHANGED <<flagVars, cmdline, networkOK, amount, fee, receiverAddr,
                   conf, doneVars, resumeMsg, resumeStep, histVars, feeVars, callVars,
                   auxVars>>

\* The address strings the receiver prompt of a chain accepts.
ChainAddrStrs(p) == IF p THEN {"P-a1", "P-a2"} ELSE {"X-a2"}

\* Receiver with the target address, when one is given, taken on receive too.
ReceiverOfFlag(s, str, k) == IF s \/ str # "" THEN ParseToID(str) ELSE k.addr

\* lines 408, 422, 427: the receiver is the parsed target address on send,
\* kc.Addresses().List()[0] on receive.
Receiver(s, str, k) == IF s THEN ParseToID(str) ELSE k.addr

\* lines 407-432: the receiver: on send the target address (prompted when
\* the flag is empty) parsed to a short ID, on receive the first address of
\* the keychain.  address.Format does not fail on a short ID and the HRP of
\* a network, so its error return (here and in the summary) has no branch.
ResolveReceiver ==
    /\ pc = "receiver"
    /\ IF send
         THEN \/ /\ receiverAddrStr = ""
                 /\ Return("PromptError")
                 /\ UNCHANGED <<receiverAddrStr, receiverAddr>>
              \/ \E str \in (IF receiverAddrStr = "" THEN ChainAddrStrs(PToP)
                                                    ELSE {receiverAddrStr}) :
                    /\ receiverAddrStr' = str
                    /\ IF ParseToID(str) = 0
                         THEN Return("ParseError") /\ UNCHANGED receiverAddr
                         ELSE /\ receiverAddr' = Receiver(send, str, kc)
                              /\ pc' = "summary" /\ UNCHANGED <<result, retAt>>
         ELSE /\ receiverAddr' = Receiver(send, receiverAddrStr, kc)
              /\ receiverAddrStr' = FormatP(kc.addr)
              /\ pc' = "summary" /\ UNCHANGED <<result, retAt>>
    /\ UNCHANGED <<send, receive, keyName, ledgerIndex, force, amountFlt,
                   receiveRecoveryStep, PToX, PToP, cmdline, networkOK,
                   amount, fee, kc, conf, doneVars, resumeMsg, resumeStep,
                   histVars, feeVars, callVars,
                   auxVars>>

\* SelfTransfer with the chain test inverted.
SelfTransferXOnly(addr, rcv, p) == addr = rcv /\ ~p

\* addr == receiverAddr && PToP
SelfTransfer(addr, rcv, p) == addr = rcv /\ p

\* TotalFee with three operations charged on the Primary chain.
TotalFeeOfThree(f, x) == IF x THEN 2 * f ELSE 3 * f

\* lines 446-449: totalFee := 4 * fee; if PToX { totalFee = 2 * fee }
TotalFee(f, x) == IF x THEN 2 * f ELSE 4 * f

\* lines 445, 450, 452: what the summary prints: for a send the amount, the
\* source address, the target address and the total fee taken from the
\* source; for a receive the amount and the target address.
SummaryFields(s) ==
    IF s THEN {"amount", "source", "target", "fee"} ELSE {"amount", "target"}

\* lines 434-454: the summary printed for the operator; on send, the check
\* that the sender is not the receiver, and the total fee.
Summary ==
    /\ pc = "summary"
    /\ IF send /\ SelfTransfer(kc.addr, receiverAddr, PToP)
         THEN /\ Return("SelfTransfer")
              /\ UNCHANGED <<totalFee, shown>>
         ELSE /\ totalFee' = (IF send THEN TotalFee(fee, PToX) ELSE totalFee)
              /\ shown' = SummaryFields(send)
              /\ pc' = "confirm" /\ UNCHANGED <<result, retAt>>
    /\ UNCHANGED <<flagVars, cmdline, localVars, doneVars, resumeMsg,
                   resumeStep, histVars, txFee, amountPlusFee, callVars,
                   sideVars>>

\* AsksConfirm with the test of force inverted.
AsksConfirmInverted(f) == f

\* if !force: whether the confirmation is asked.
AsksConfirm(f) == ~f

\* Declined with the answer ignored.
DeclinedNever(c) == FALSE

\* if !conf: the operator declined.
Declined(c) == ~c

\* lines 456-466: the confirmation, skipped when force is set.
Confirm ==
    /\ pc = "confirm"
    /\ IF AsksConfirm(force)
         THEN /\ confirmAsked' = confirmAsked + 1
              /\ \/ Return("PromptError") /\ UNCHANGED conf
                 \/ \E ans \in BOOLEAN :
                       /\ conf' = ans
                       /\ IF Declined(ans)
                            THEN Return("nil")
                            ELSE /\ pc' = IF send THEN "s_wallet"
                                          ELSE StepPc(0, receiveRecoveryStep)
                                 /\ UNCHANGED <<result, retAt>>
         ELSE /\ pc' = IF send THEN "s_wallet"
                               ELSE StepPc(0, receiveRecoveryStep)
              /\ UNCHANGED <<confirmAsked, conf, result, retAt>>
    /\ UNCHANGED <<flagVars, cmdline, networkOK, amount, fee, kc,
                   receiverAddr, wallets, built, owners, signed, issued, inflight,
                   outcome, resumeMsg, resumeStep, histVars, feeVars, callVars,
                   auxVars>>

(***************************************************************************)
(* The steps.  Each step makes a wallet (a connection to the endpoint),    *)
(* builds and signs its operation, issues it and waits for the answer.     *)
(***************************************************************************)

\* The resume notice printed before a failed receive step returns: "same"
\* is "restart from this step by using the same command", "withStep" adds
\* "with extra arguments: --receive-recovery-step <receiveRecoveryStep>",
\* "none" is no notice (send).
\* ResumeStepOf with the notice printing the step before the failed one.
ResumeStepOffByOne(c) == c - 1

\* The step the "withStep" notice prints: receiveRecoveryStep.
ResumeStepOf(c) == c

Fail(res, msg) ==
    /\ Return(res)
    /\ resumeMsg' = msg
    /\ resumeStep' = IF msg = "withStep" THEN ResumeStepOf(receiveRecoveryStep)
                                          ELSE resumeStep

\* The recovery step the notice of a failed invocation tells the operator
\* to pass.
ResumeCursor == IF resumeMsg = "withStep" THEN resumeStep ELSE cmdline.step

\* How an issued operation ends: err is whether IssueTx returns an error,
\* expired whether the context of the call (utils.GetAPIContext) has expired
\* by then (ctx.Err() != nil), and acc whether the ledger accepted the
\* operation.  A call whose context expired returns the error of the
\* context, with the operation accepted or not; a call that returns nil was
\* accepted; any other error is the ledger refusing the operation.
IssueOutcomes ==
    {o \in [err : BOOLEAN, expired : BOOLEAN, acc : BOOLEAN] :
        /\ o.expired => o.err
        /\ ~o.err => o.acc
        /\ (o.err /\ ~o.expired) => ~o.acc}

\* ErrKind with the state of the context ignored.
ErrKindNoTimeout(exp) == "Rejected"

\* lines 520-525, 566-571: if ctx.Err() != nil the error reported is
\* "timeout issuing/verifying tx", else "error issuing tx".  The step
\* executors of steps 1 and 2 report their errors in the same two kinds.
ErrKind(exp) == IF exp THEN "Timeout" ELSE "Rejected"

\* What the invocation makes of the return of IssueTx.
IssueResult(o) == IF o.err THEN ErrKind(o.expired) ELSE "nil"

\* The contexts the blocking calls are given: context.Background(), which
\* never expires, and the context of utils.GetAPIContext, which expires
\* after the request timeout.
Background == "Background"
APIContext == "APIContext"
HasDeadline(ctx) == ctx # Background

\* A call given a context that never expires, whose peer never answers: the
\* invocation stays in the call.
Block == pc' = "hung" /\ hungAt' = pc /\ UNCHANGED endVars

\* primary.MakeWallet(ctx, ...) and its error return.  The wallet is made
\* from the answers of the endpoint; when the endpoint never answers the
\* call ends only when ctx expires.
MakeWallet(here, next, msg, ctx) ==
    /\ pc = here
    /\ \/ wallets' = wallets + 1 /\ pc' = next /\ UNCHANGED <<endVars, hungAt>>
       \/ Fail("WalletError", msg) /\ UNCHANGED <<wallets, hungAt>>
       \/ /\ UNCHANGED wallets
          /\ IF HasDeadline(ctx)
               THEN Fail("Timeout", msg) /\ UNCHANGED hungAt
               ELSE Block
    /\ UNCHANGED <<flagVars, cmdline, localVars, confirmAsked, built, owners, signed,
                   issued, inflight, outcome, histVars, feeVars, expired,
                   auxVars>>

\* Builder().NewExportTx / NewImportTx and its error return; amt is the
\* amount the send has computed for the output of its export.
Build(here, next, op, msg, amt) ==
    /\ pc = here
    /\ amountPlusFee' = amt
    /\ \/ /\ built' = Append(built, op)
          /\ owners' = [owners EXCEPT ![op] = OutputOwners(receiverAddr)]
          /\ pc' = next /\ UNCHANGED endVars
       \/ Fail("BuildError", msg) /\ UNCHANGED <<built, owners>>
    /\ UNCHANGED <<flagVars, cmdline, localVars, confirmAsked, wallets,
                   signed, issued, inflight, outcome, histVars, txFee,
                   totalFee, callVars,
                   auxVars>>

\* Signer().Sign(ctx, &tx) and its error return.  With the keychain of a
\* ledger the signature is made once the operator confirms on the device;
\* when the confirmation never comes the call ends only when ctx expires.
Sign(here, next, op, msg, ctx) ==
    /\ pc = here
    /\ \/ signed' = Append(signed, op) /\ pc' = next /\ UNCHANGED <<endVars, hungAt>>
       \/ Fail("SignError", msg) /\ UNCHANGED <<signed, hungAt>>
       \/ /\ kc.ledger
          /\ UNCHANGED signed
          /\ IF HasDeadline(ctx)
               THEN Fail("SignerUnavailable", msg) /\ UNCHANGED hungAt
               ELSE Block
    /\ UNCHANGED <<flagVars, cmdline, localVars, confirmAsked, wallets,
                   built, owners, issued, inflight, outcome, histVars, feeVars, expired,
                   auxVars>>

\* Whether op occurs in the log seq, and how often.
InSeq(op, seq) == \E i \in 1..Len(seq) : seq[i] = op
Count(op, seq) == Cardinality({i \in 1..Len(seq) : seq[i] = op})

\* Issue with the cursor advanced as soon as the operation is submitted.
IssueAdvancing(here, next, op) ==
    /\ pc = here
    /\ issued' = Append(issued, op)
    /\ inflight' = op
    /\ reissued' = (IF accepted[op] > 0 THEN reissued \cup {op} ELSE reissued)
    /\ reissuedAcked' = (reissuedAcked \/ op \in acked)
    /\ receiveRecoveryStep' = receiveRecoveryStep + 1
    /\ pc' = next
    /\ UNCHANGED <<send, receive, keyName, ledgerIndex, force,
                   receiverAddrStr, amountFlt, PToX, PToP, cmdline,
                   localVars, confirmAsked, wallets, built, owners, signed, outcome,
                   endVars, accepted, carried, invocations, chain, acked, lost,
                   feeVars, callVars,
                   auxVars>>

\* Issue with the operation submitted a second time.
IssueTwice(here, next, op) ==
    /\ pc = here
    /\ issued' = Append(issued, op)
    /\ inflight' = op
    /\ reissued' = (IF accepted[op] > 0 THEN reissued \cup {op} ELSE reissued)
    /\ reissuedAcked' = (reissuedAcked \/ op \in acked)
    /\ pc' = IF InSeq(op, issued) THEN next ELSE here
    /\ UNCHANGED <<flagVars, cmdline, localVars, confirmAsked, wallets,
                   built, owners, signed, outcome, endVars, accepted, carried,
                   invocations,
                   chain, acked, lost, feeVars, callVars,
                   auxVars>>

\* IssueTx is called: the operation is submitted and the call blocks.
Issue(here, next, op) ==
    /\ pc = here
    /\ issued' = Append(issued, op)
    /\ inflight' = op
    /\ reissued' = (IF accepted[op] > 0 THEN reissued \cup {op} ELSE reissued)
    /\ reissuedAcked' = (reissuedAcked \/ op \in acked)
    /\ pc' = next
    /\ UNCHANGED <<flagVars, cmdline, localVars, confirmAsked, wallets,
                   built, owners, signed, outcome, endVars, accepted, carried,
                   invocations,
                   chain, acked, lost, feeVars, callVars,
                   auxVars>>

\* What an import puts on its chain: what the export before it carried, less
\* the fee of the import (nothing when nothing was exported).
Imported(x, f) == IF x > f THEN x - f ELSE 0

\* What an accepted operation puts at its destination: an export the amount
\* it was built with (its fee is taken from the source on top of that), an
\* import what the export of its source chain carried less its own fee.
Carries(op, amt, c, f) ==
    CASE op = "ImportX" -> Imported(c["ExportPX"], f)
      [] op = "ImportP" -> Imported(c["ExportXP"], f)
      [] OTHER -> amt

\* Acked with a timeout taken for an acknowledgment.
AckedOrTimeout(res) == res # "Rejected"

\* if err != nil after IssueTx (or after the step executor): the step is
\* acknowledged when the error is nil.
Acked(res) == res = "nil"

\* IssueTx returns: ack is what the step does on a nil error (the pause of
\* time.Sleep before the next step changes no state).
Await(here, op, msg, ack) ==
    /\ pc = here /\ inflight = op
    /\ \E o \in IssueOutcomes :
          /\ accepted' =
                [accepted EXCEPT
                   ![op] = IF o.acc /\ @ < MaxInvocations THEN @ + 1 ELSE @]
          /\ carried' = (IF o.acc
                            THEN [carried EXCEPT
                                    ![op] = Carries(op, amountPlusFee, carried, fee)]
                            ELSE carried)
          /\ outcome' = [outcome EXCEPT ![op] = IssueResult(o)]
          /\ expired' = [expired EXCEPT ![op] = o.expired]
          /\ acked' = (IF ~o.err THEN acked \cup {op} ELSE acked)
          /\ lost' = (IF o.err /\ o.acc THEN lost \cup {op} ELSE lost)
          /\ IF Acked(IssueResult(o))
               THEN ack
               ELSE Fail(IssueResult(o), msg) /\ UNCHANGED receiveRecoveryStep
    /\ inflight' = "none"
    /\ UNCHANGED <<send, receive, keyName, ledgerIndex, force,
                   receiverAddrStr, amountFlt, PToX, PToP, cmdline,
                   localVars, confirmAsked, wallets, built, owners, signed, issued,
                   invocations, chain, reissued, reissuedAcked, feeVars,
                   hungAt,
                   auxVars>>

\* NextCursor with the cursor moved past the next step.
NextCursorByTwo(c) == c + 2

\* receiveRecoveryStep++
NextCursor(c) == c + 1

\* lines 473-527: send, the export from the P-Chain.
SendMakeWallet == MakeWallet("s_wallet", "s_build", "none", Background)
\* AmountPlusFee with every fee of the total added to the exported amount.
AmountPlusFeeAll(a, f, x) == IF x THEN a + f * 2 ELSE a + f * 4

\* lines 485-488: amountPlusFee := amount + fee*3;
\* if PToX { amountPlusFee = amount + fee }
AmountPlusFee(a, f, x) == IF x THEN a + f ELSE a + f * 3

SendBuild ==
    Build("s_build", "s_sign", "ExportPX", "none",
          AmountPlusFee(amount, fee, PToX))
SendSign == Sign("s_sign", "s_issue", "ExportPX", "none", Background)
SendIssue == Issue("s_issue", "s_await", "ExportPX")
SendAck ==
    /\ pc' = "ret"
    /\ UNCHANGED <<receiveRecoveryStep, endVars>>
SendAwait == Await("s_await", "ExportPX", "none", SendAck)

\* lines 529-582: receive step 0, the import on the X-Chain.
Step0MakeWallet == MakeWallet("r0_wallet", "r0_build", "same", Background)
Step0Build ==
    Build("r0_build", "r0_sign", "ImportX", "same", amountPlusFee)
Step0Sign == Sign("r0_sign", "r0_issue", "ImportX", "same", Background)
Step0Issue == Issue("r0_issue", "r0_await", "ImportX")
\* lines 576-581: after the import is acknowledged.
Step0Ack ==
    IF PToX
      THEN Return("nil") /\ UNCHANGED <<receiveRecoveryStep, resumeMsg, resumeStep>>
      ELSE /\ receiveRecoveryStep' = NextCursor(receiveRecoveryStep)
           /\ pc' = StepPc(1, receiveRecoveryStep')
           /\ UNCHANGED endVars
Step0Await == Await("r0_await", "ImportX", "same", Step0Ack)

\* lines 583-611: receive step 1, the export from the X-Chain
\* (subnet.IssueXToPExportTx builds, signs and issues it).
Step1MakeWallet ==
    MakeWallet("r1_wallet", "r1_build", "withStep", Background)
\* ReExportAmount with no fee added for the import on the P-Chain.
ReExportAmountBare(a, f) == a

\* line 602: amount+fee*1
ReExportAmount(a, f) == a + f * 1

Step1Build ==
    Build("r1_build", "r1_sign", "ExportXP", "withStep",
          ReExportAmount(amount, fee))
\* The step executor signs under the timeout of the API context.
Step1Sign == Sign("r1_sign", "r1_issue", "ExportXP", "withStep", APIContext)
Step1Issue == Issue("r1_issue", "r1_await", "ExportXP")
\* lines 609-610: after the export is acknowledged.
Step1Ack ==
    /\ receiveRecoveryStep' = NextCursor(receiveRecoveryStep)
    /\ pc' = StepPc(2, receiveRecoveryStep')
    /\ UNCHANGED endVars
Step1Await == Await("r1_await", "ExportXP", "withStep", Step1Ack)

\* lines 612-636: receive step 2, the import on the P-Chain
\* (subnet.IssuePFromXImportTx builds, signs and issues it).
Step2MakeWallet ==
    MakeWallet("r2_wallet", "r2_build", "withStep", Background)
Step2Build ==
    Build("r2_build", "r2_sign", "ImportP", "withStep", amountPlusFee)
\* The step executor signs under the timeout of the API context.
Step2Sign == Sign("r2_sign", "r2_issue", "ImportP", "withStep", APIContext)
Step2Issue == Issue("r2_issue", "r2_await", "ImportP")
Step2Ack ==
    /\ pc' = "ret"
    /\ UNCHANGED <<receiveRecoveryStep, endVars>>
Step2Await == Await("r2_await", "ImportP", "withStep", Step2Ack)

\* line 639: return nil.
ReturnNil ==
    /\ pc = "ret"
    /\ Return("nil")
    /\ UNCHANGED <<flagVars, cmdline, localVars, doneVars, resumeMsg,
                   resumeStep, histVars, feeVars, callVars,
                   auxVars>>

(***************************************************************************)
(* The operator.  After an invocation that printed a resume notice, the    *)
(* operator runs the command again in a new process: the same command,     *)
(* with the prompts answered as before (the flag variables keep their      *)
(* resolved values), and with a recovery step of the operator's choice.    *)
(* `chain` records whether every invocation so far started at the step the *)
(* preceding one reported, the first at step 0.                            *)
(***************************************************************************)
Reinvoke ==
    /\ pc = "done" /\ resumeMsg # "none"
    /\ invocations < MaxInvocations
    /\ \E c \in 0..MaxCursor :
          /\ receiveRecoveryStep' = c
          /\ chain' = (chain /\ c = ResumeCursor)
          /\ cmdline' = [ledger |-> cmdline.ledger \/ UsingLedger(ledgerIndex),
                         key |-> keyName # "", step |-> c]
    /\ invocations' = invocations + 1
    /\ pc' = "start"
    /\ networkOK' = FALSE /\ amount' = 0 /\ fee' = 0
    /\ kc' = NoKeychain /\ receiverAddr' = 0 /\ conf' = FALSE
    /\ confirmAsked' = 0 /\ wallets' = 0
    /\ built' = <<>> /\ signed' = <<>> /\ issued' = <<>>
    /\ owners' = [o \in Ops |-> NoOwners]
    /\ inflight' = "none"
    /\ outcome' = [o \in Ops |-> "none"]
    /\ result' = "none" /\ retAt' = "none"
    /\ resumeMsg' = "none" /\ resumeStep' = 0
    /\ totalFee' = 0 /\ amountPlusFee' = 0
    /\ hungAt' = "none"
    /\ expired' = [o \in Ops |-> FALSE]
    /\ shown' = {}
    /\ UNCHANGED <<send, receive, keyName, ledgerIndex, force,
                   receiverAddrStr, amountFlt, PToX, PToP, accepted, carried, acked,
                   lost, reissued, reissuedAcked, txFee,
                   sideVars>>

\* The steps of one invocation: transferF.
Invocation ==
    \/ CheckFlags \/ GetNetwork \/ ResolveDirection \/ ResolveChain
    \/ ResolveSigner \/ ResolveAmount \/ LoadKeychain \/ ResolveReceiver
    \/ Summary \/ Confirm
    \/ SendMakeWallet \/ SendBuild \/ SendSign \/ SendIssue \/ SendAwait
    \/ Step0MakeWallet \/ Step0Build \/ Step0Sign \/ Step0Issue \/ Step0Await
    \/ Step1MakeWallet \/ Step1Build \/ Step1Sign \/ Step1Issue \/ Step1Await
    \/ Step2MakeWallet \/ Step2Build \/ Step2Sign \/ Step2Issue \/ Step2Await
    \/ ReturnNil

Next == Invocation \/ Reinvoke

Spec == Init /\ [][Next]_vars

\* The positions of receive step k.
StepPcs(k) ==
    CASE k = 0 -> {"r0_wallet", "r0_build", "r0_sign", "r0_issue", "r0_await"}
      [] k = 1 -> {"r1_wallet", "r1_build", "r1_sign", "r1_issue", "r1_await"}
      [] OTHER -> {"r2_wallet", "r2_build", "r2_sign", "r2_issue", "r2_await"}

(***************************************************************************)
(* The operator who resumes: after every invocation that ended with an     *)
(* error the command is run again, with the recovery step of the notice    *)
(* (the same command when the notice names no step), as often as it takes. *)
(* The invocations past MaxInvocations are not counted.                    *)
(***************************************************************************)
Resume ==
    /\ pc = "done" /\ result # "nil"
    /\ receiveRecoveryStep' = ResumeCursor
    /\ cmdline' = [cmdline EXCEPT !.step = ResumeCursor]
    /\ invocations' = (IF invocations < MaxInvocations THEN invocations + 1
                                                        ELSE invocations)
    /\ pc' = "start"
    /\ networkOK' = FALSE /\ amount' = 0 /\ fee' = 0
    /\ kc' = NoKeychain /\ receiverAddr' = 0 /\ conf' = FALSE
    /\ confirmAsked' = 0 /\ wallets' = 0
    /\ built' = <<>> /\ signed' = <<>> /\ issued' = <<>>
    /\ owners' = [o \in Ops |-> NoOwners]
    /\ inflight' = "none"
    /\ outcome' = [o \in Ops |-> "none"]
    /\ result' = "none" /\ retAt' = "none"
    /\ resumeMsg' = "none" /\ resumeStep' = 0
    /\ totalFee' = 0 /\ amountPlusFee' = 0
    /\ hungAt' = "none"
    /\ expired' = [o \in Ops |-> FALSE]
    /\ shown' = {}
    /\ UNCHANGED <<send, receive, keyName, ledgerIndex, force,
                   receiverAddrStr, amountFlt, PToX, PToP, accepted, carried, chain,
                   acked, lost, reissued, reissuedAcked, txFee, sideVars>>

\* The receiver: once the send has returned nil, the command is run with
\* --receive for the same amount on the same network, from recovery step 0.
Receive ==
    /\ pc = "done" /\ send /\ result = "nil"
    /\ send' = FALSE /\ receive' = TRUE
    /\ receiverAddrStr' = ""
    /\ receiveRecoveryStep' = 0
    /\ cmdline' = [cmdline EXCEPT !.step = 0]
    /\ invocations' = (IF invocations < MaxInvocations THEN invocations + 1
                                                        ELSE invocations)
    /\ pc' = "start"
    /\ networkOK' = FALSE /\ amount' = 0 /\ fee' = 0
    /\ kc' = NoKeychain /\ receiverAddr' = 0 /\ conf' = FALSE
    /\ confirmAsked' = 0 /\ wallets' = 0
    /\ built' = <<>> /\ signed' = <<>> /\ issued' = <<>>
    /\ owners' = [o \in Ops |-> NoOwners]
    /\ inflight' = "none"
    /\ outcome' = [o \in Ops |-> "none"]
    /\ result' = "none" /\ retAt' = "none"
    /\ resumeMsg' = "none" /\ resumeStep' = 0
    /\ totalFee' = 0 /\ amountPlusFee' = 0
    /\ hungAt' = "none"
    /\ expired' = [o \in Ops |-> FALSE]
    /\ shown' = {}
    /\ UNCHANGED <<keyName, ledgerIndex, force, amountFlt, PToX, PToP,
                   accepted, carried, chain, acked, lost, reissued,
                   reissuedAcked, txFee, sideVars>>

\* A transfer to the P-Chain of an amount, with --force and a stored key:
\* the send, or the receive from recovery step 0.
InitLive ==
    /\ Flags /\ txFee \in TxFees /\ Alone
    /\ send # receive /\ PToP /\ ~PToX
    /\ force /\ keyName = "k1" /\ ~cmdline.ledger
    /\ amountFlt = Avax + Avax \div 2 /\ receiverAddrStr = ""
    /\ receiveRecoveryStep = 0

NextLive == Invocation \/ Resume \/ Receive

\* The operator runs the command whenever it can run, and what the network,
\* the key store and the ledger are asked again and again they eventually
\* do: the network is resolved, the key is loaded, and each step gets its
\* wallet, its operation built, signed and, once submitted, acknowledged.
Fairness ==
    /\ WF_vars(NextLive)
    /\ SF_vars(GetNetwork /\ networkOK')
    /\ SF_vars(LoadKeychain /\ kc' # NoKeychain)
    /\ \A k \in 0..2 :
          /\ SF_vars((Step0MakeWallet \/ Step1MakeWallet \/ Step2MakeWallet)
                       /\ pc \in StepPcs(k) /\ wallets' # wallets)
          /\ SF_vars((Step0Build \/ Step1Build \/ Step2Build)
                       /\ pc \in StepPcs(k) /\ built' # built)
          /\ SF_vars((Step0Sign \/ Step1Sign \/ Step2Sign)
                       /\ pc \in StepPcs(k) /\ signed' # signed)
          /\ SF_vars((Step0Await \/ Step1Await \/ Step2Await)
                       /\ pc \in StepPcs(k)
                       /\ outcome'[StepOp(k)] = "nil")

SpecLive == InitLive /\ [][NextLive]_vars /\ Fairness

(***************************************************************************)
(* The command run again in the process of the invocation that has ended,  *)
(* with the command line of that invocation.  Parsing the command line     *)
(* assigns the flags that are given; the package-level variable of a flag  *)
(* that is not given keeps the value the invocation before left in it.  A  *)
(* recovery step other than 0 was given; the recovery step 0 was given or  *)
(* is the default of the flag left out.                                    *)
(***************************************************************************)
Rerun ==
    /\ pc = "done"
    /\ \E given \in {cmdline.step # 0, TRUE} :
          receiveRecoveryStep' = (IF given THEN cmdline.step
                                           ELSE receiveRecoveryStep)
    /\ invocations' = (IF invocations < MaxInvocations THEN invocations + 1
                                                        ELSE invocations)
    /\ pc' = "start"
    /\ networkOK' = FALSE /\ amount' = 0 /\ fee' = 0
    /\ kc' = NoKeychain /\ receiverAddr' = 0 /\ conf' = FALSE
    /\ confirmAsked' = 0 /\ wallets' = 0
    /\ built' = <<>> /\ signed' = <<>> /\ issued' = <<>>
    /\ owners' = [o \in Ops |-> NoOwners]
    /\ inflight' = "none"
    /\ outcome' = [o \in Ops |-> "none"]
    /\ result' = "none" /\ retAt' = "none"
    /\ resumeMsg' = "none" /\ resumeStep' = 0
    /\ totalFee' = 0 /\ amountPlusFee' = 0
    /\ hungAt' = "none"
    /\ expired' = [o \in Ops |-> FALSE]
    /\ shown' = {}
    /\ UNCHANGED <<send, receive, keyName, ledgerIndex, force,
                   receiverAddrStr, amountFlt, PToX, PToP, cmdline, accepted,
                   carried, chain, acked, lost, reissued, reissuedAcked,
                   txFee, sideVars>>

\* The command with --force and a stored key, in a process that runs it
\* more than once.
InitRerun ==
    /\ Flags /\ txFee = 10 /\ Alone
    /\ force /\ keyName = "k1" /\ ~cmdline.ledger

NextRerun == Invocation \/ Rerun

SpecRerun == InitRerun /\ [][NextRerun]_vars

(***************************************************************************)
(* A second invocation of the command, running at the same time as the     *)
(* first: a confirmed receive to the P-Chain standing before its steps.    *)
(* All the state of the command is in package variables (lines 202-214),   *)
(* of which a process has one copy: a second invocation in another process *)
(* has its own recovery step, a second one in the same process (the        *)
(* command executed again while transferF runs) uses the same variable.    *)
(* One step of the second invocation is one of the blocks                  *)
(* `if receiveRecoveryStep == k { ... }` of lines 529-636.                 *)
(***************************************************************************)

\* The variable receiveRecoveryStep as the second invocation reads it.
CursorOfB == IF sameProcess THEN receiveRecoveryStep ELSE cursorB

\* receiveRecoveryStep++ executed by the second invocation.
AdvanceB ==
    IF sameProcess
      THEN /\ receiveRecoveryStep' = NextCursor(receiveRecoveryStep)
           /\ UNCHANGED cursorB
      ELSE /\ cursorB' = NextCursor(cursorB)
           /\ UNCHANGED receiveRecoveryStep

BStep ==
    /\ pcB = "run"
    /\ IF CursorOfB > 2
         THEN /\ pcB' = "done"
              /\ UNCHANGED <<receiveRecoveryStep, cursorB, issuedB, resumeB>>
         ELSE /\ issuedB' = Append(issuedB, StepOp(CursorOfB))
              /\ \/ \* the step fails: the notice, and the return
                    /\ pcB' = "done" /\ resumeB' = CursorOfB
                    /\ UNCHANGED <<receiveRecoveryStep, cursorB>>
                 \/ \* the step is acknowledged
                    /\ UNCHANGED resumeB
                    /\ IF CursorOfB < 2
                         THEN AdvanceB /\ pcB' = "run"
                         ELSE /\ pcB' = "done"
                              /\ UNCHANGED <<receiveRecoveryStep, cursorB>>
    /\ UNCHANGED <<send, receive, keyName, ledgerIndex, force,
                   receiverAddrStr, amountFlt, PToX, PToP, cmdline, pc,
                   localVars, doneVars, endVars, histVars, feeVars, callVars,
                   shown, sameProcess, avagoVars, otherVars>>

\* Two invocations with --force and a stored key, the second in the same
\* process or in another one, each with its recovery step.
InitPair ==
    /\ Flags /\ txFee = 10
    /\ force /\ keyName = "k1" /\ ~cmdline.ledger
    /\ amountFlt = Avax + Avax \div 2 /\ receiverAddrStr = "X-a2"
    /\ sameProcess \in BOOLEAN
    /\ pcB = "run"
    /\ cursorB \in (IF sameProcess THEN {0} ELSE 0..MaxCursor)
    /\ issuedB = <<>> /\ resumeB = 0
    /\ NoStart

NextPair == Next \/ BStep

SpecPair == InitPair /\ [][NextPair]_vars

(***************************************************************************)
(* The start of the local network: determineAvagoVersion, as               *)
(* Test_determineAvagoVersion sets it up and calls it.                     *)
(***************************************************************************)

\* The sidecars of the test (sc1, sc2, sc3, scCustom), and a custom VM with
\* a nonzero RPC version.
SidecarNames == {"test1", "test2", "test3", "test4", "test5"}
SidecarVM(n) == IF n \in {"test4", "test5"} THEN "CustomVM" ELSE "SubnetEvm"
SidecarRPC(n) ==
    CASE n \in {"test1", "test2", "test5"} -> 18
      [] n = "test3" -> 19
      [] OTHER -> 0

\* The node versions the user passes.
UserAvagos == {"latest", "v1.9.5", "v1.9.1"}

\* testAvagoCompat: the node version of an RPC version (the first of the
\* versions listed).
AvagoCompat(rpc) ==
    CASE rpc = 19 -> "v1.9.2"
      [] rpc = 18 -> "v1.9.1"
      [] rpc = 17 -> "v1.9.0"
      [] OTHER -> ""

\* EvmRPCs with the custom VMs counted.
AllRPCs(S) == {SidecarRPC(n) : n \in S}

\* The RPC versions of the Subnet-EVM sidecars among S.
EvmRPCs(S) == {SidecarRPC(n) : n \in {x \in S : SidecarVM(x) = "SubnetEvm"}}

\* determineAvagoVersion with the sidecars examined before the version of
\* the user.
DetermineSidecarsFirst(user, S) ==
    IF Cardinality(EvmRPCs(S)) > 1 THEN [version |-> "", err |-> TRUE]
    ELSE IF user # "latest" THEN [version |-> user, err |-> FALSE]
    ELSE IF EvmRPCs(S) = {} THEN [version |-> "latest", err |-> FALSE]
    ELSE [version |-> AvagoCompat(CHOOSE r \in EvmRPCs(S) : TRUE),
          err |-> FALSE]

\* determineAvagoVersion(userProvidedAvagoVersion) with the sidecars S
\* deployed locally.
DetermineAvagoVersionOf(user, S) ==
    IF user # "latest" THEN [version |-> user, err |-> FALSE]
    ELSE IF EvmRPCs(S) = {} THEN [version |-> "latest", err |-> FALSE]
    ELSE IF Cardinality(EvmRPCs(S)) > 1 THEN [version |-> "", err |-> TRUE]
    ELSE [version |-> AvagoCompat(CHOOSE r \in EvmRPCs(S) : TRUE),
          err |-> FALSE]

\* The cases of the test, with the results they require.
AvagoTests ==
    {[userAvago |-> "v1.9.5", sidecars |-> {"test1"},
      expectedAvago |-> "v1.9.5", expectedErr |-> FALSE],
     [userAvago |-> "latest", sidecars |-> {"test1"},
      expectedAvago |-> "v1.9.1", expectedErr |-> FALSE],
     [userAvago |-> "latest", sidecars |-> {"test1", "test2"},
      expectedAvago |-> "v1.9.1", expectedErr |-> FALSE],
     [userAvago |-> "latest", sidecars |-> {"test1", "test3"},
      expectedAvago |-> "", expectedErr |-> TRUE],
     [userAvago |-> "latest", sidecars |-> {"test4"},
      expectedAvago |-> "latest", expectedErr |-> FALSE],
     [userAvago |-> "v1.9.1", sidecars |-> {"test4"},
      expectedAvago |-> "v1.9.1", expectedErr |-> FALSE],
     [userAvago |-> "latest", sidecars |-> {"test1", "test2", "test4"},
      expectedAvago |-> "v1.9.1", expectedErr |-> FALSE]}

\* app.CreateSidecar(&sc), before the call.
CreateSidecar ==
    /\ avagoVersion = "none"
    /\ \E n \in SidecarNames \ sidecars : sidecars' = sidecars \cup {n}
    /\ UNCHANGED <<flagVars, cmdline, pc, localVars, doneVars, endVars,
                   histVars, feeVars, callVars, shown, pairVars, userAvago,
                   avagoVersion, avagoErr, otherVars>>

\* avagoVersion, err := determineAvagoVersion(userAvago)
DetermineAvagoVersion ==
    /\ avagoVersion = "none"
    /\ avagoVersion' = DetermineAvagoVersionOf(userAvago, sidecars).version
    /\ avagoErr' = DetermineAvagoVersionOf(userAvago, sidecars).err
    /\ UNCHANGED <<flagVars, cmdline, pc, localVars, doneVars, endVars,
                   histVars, feeVars, callVars, shown, pairVars, sidecars,
                   userAvago, otherVars>>

InitAvago ==
    /\ FlagsOf({0})
    /\ ~send /\ ~receive /\ keyName = "" /\ ~cmdline.ledger /\ ~force
    /\ receiverAddrStr = "" /\ receiveRecoveryStep = 0 /\ ~PToX /\ ~PToP
    /\ txFee = 10
    /\ sameProcess = FALSE /\ pcB = "idle" /\ cursorB = 0
    /\ issuedB = <<>> /\ resumeB = 0
    /\ sidecars = {} /\ userAvago \in UserAvagos
    /\ avagoVersion = "none" /\ avagoErr = FALSE
    /\ NoOther

NextAvago == CreateSidecar \/ DetermineAvagoVersion

SpecAvago == InitAvago /\ [][NextAvago]_vars

(***************************************************************************)
(* The sums of transferF in the arithmetic of uint64.  A uint64 is the     *)
(* tuple of its four 16-bit limbs, the lowest first; the sum of two drops  *)
(* the carry out of the highest limb, as the addition of Go does.          *)
(***************************************************************************)
Limb == 65536

\* The uint64 of a number below 2^31.
ToU64(n) == <<n % Limb, n \div Limb, 0, 0>>

\* The carry into limb i of x + y.
RECURSIVE Carry(_, _, _)
Carry(x, y, i) ==
    IF i = 1 THEN 0 ELSE (x[i - 1] + y[i - 1] + Carry(x, y, i - 1)) \div Limb

\* x + y of uint64
Add64(x, y) == [i \in 1..4 |-> (x[i] + y[i] + Carry(x, y, i)) % Limb]

\* x * k of uint64, for a small constant k
RECURSIVE Times64(_, _)
Times64(x, k) == IF k = 0 THEN ToU64(0) ELSE Add64(x, Times64(x, k - 1))

\* x >= y of uint64
RECURSIVE GeqFrom(_, _, _)
GeqFrom(x, y, i) ==
    IF i = 0 THEN TRUE
    ELSE IF x[i] # y[i] THEN x[i] > y[i]
    ELSE GeqFrom(x, y, i - 1)
Geq64(x, y) == GeqFrom(x, y, 4)

\* lines 485-488 in uint64: amountPlusFee := amount + fee*3;
\* if PToX { amountPlusFee = amount + fee }
AmountPlusFee64(a, f, x) ==
    IF x THEN Add64(a, f) ELSE Add64(a, Times64(f, 3))

\* line 602 in uint64: amount+fee*1
ReExportAmount64(a, f) == Add64(a, Times64(f, 1))

\* line 383: amount := uint64(amountFlt * float64(units.Avax)) for amounts
\* the --amount flag takes, from 1 nAVAX up to the largest float64 whose
\* product is below 2^64:
\*   0.000000001         ->                    1
\*   1.5                 ->           1500000000
\*   720000000           ->   720000000000000000
\*   18446744073         -> 18446744072999999488
\*   18446744073.7       -> 18446744073699999744
\*   18446744073.7095    -> 18446744073709498368
\*   18446744073.709549  -> 18446744073709549568  (2^64 - 2048)
Amounts64 ==
    {<<1, 0, 0, 0>>,
     <<12032, 22888, 0, 0>>,
     <<0, 28232, 62511, 2557>>,
     <<6144, 54709, 65535, 65535>>,
     <<16384, 65390, 65535, 65535>>,
     <<12288, 65535, 65535, 65535>>,
     <<63488, 65535, 65535, 65535>>}

\* transferF has its amount and the fee of the network, and the direction
\* and destination are resolved.
InitSum ==
    /\ FlagsOf({0})
    /\ ~send /\ ~receive /\ keyName = "" /\ ~cmdline.ledger /\ ~force
    /\ receiverAddrStr = "" /\ receiveRecoveryStep = 0 /\ ~PToX /\ ~PToP
    /\ txFee = 10
    /\ sameProcess = FALSE /\ pcB = "idle" /\ cursorB = 0
    /\ issuedB = <<>> /\ resumeB = 0
    /\ sidecars = {} /\ userAvago = "latest"
    /\ avagoVersion = "none" /\ avagoErr = FALSE
    /\ \E a \in Amounts64, f \in TxFees, s \in BOOLEAN, x \in BOOLEAN :
          sumIn = [amount |-> a, fee |-> ToU64(f), send |-> s, PToX |-> x]
    /\ sumOut = <<>>
    /\ NoWizard /\ NoAddresses

\* The amount of the export: of the send (lines 485-488), or of step 1 of a
\* receive to the P-Chain (line 602).
SumAmounts ==
    /\ sumOut = <<>>
    /\ sumIn.send \/ ~sumIn.PToX
    /\ sumOut' = (IF sumIn.send
                    THEN AmountPlusFee64(sumIn.amount, sumIn.fee, sumIn.PToX)
                    ELSE ReExportAmount64(sumIn.amount, sumIn.fee))
    /\ UNCHANGED <<flagVars, cmdline, pc, localVars, doneVars, endVars,
                   histVars, feeVars, callVars, shown, pairVars, avagoVars,
                   sumIn, wizardVars, addrVars>>

NextSum == SumAmounts

SpecSum == InitSum /\ [][NextSum]_vars

(***************************************************************************)
(* upgradeGenerateCmd: the wizard of the upgrade file.                     *)
(***************************************************************************)

\* lines 95-101: vm.ContractAllowList, vm.FeeManager, vm.NativeMint,
\* vm.TxAllowList, vm.RewardManager
AllPreComps ==
    <<"ContractAllowList", "FeeManager", "NativeMint", "TxAllowList",
      "RewardManager">>

\* The transfer command, the start of the network and the sums are not run.
OnlyOther ==
    /\ FlagsOf({0})
    /\ ~send /\ ~receive /\ keyName = "" /\ ~cmdline.ledger /\ ~force
    /\ receiverAddrStr = "" /\ receiveRecoveryStep = 0 /\ ~PToX /\ ~PToP
    /\ txFee = 10
    /\ sameProcess = FALSE /\ pcB = "idle" /\ cursorB = 0
    /\ issuedB = <<>> /\ resumeB = 0
    /\ sidecars = {} /\ userAvago = "latest"
    /\ avagoVersion = "none" /\ avagoErr = FALSE
    /\ NoSum

otherFrame == <<flagVars, cmdline, pc, localVars, doneVars, endVars, histVars,
                feeVars, callVars, shown, pairVars, avagoVars, sumVars>>

\* The wizard returns r.
WizardReturn(r) == wpc' = "done" /\ wresult' = r

\* lines 64-93, 110-112: the subnet must exist and the operator must agree
\* to go on; then the list of upgrades is empty.
GenerateStart ==
    /\ wpc = "start"
    /\ \/ \* the genesis does not exist, or the operator answers no
          WizardReturn("nil")
       \/ \* CaptureYesNo fails
          WizardReturn("err")
       \/ wpc' = "select" /\ UNCHANGED wresult
    /\ UNCHANGED <<allPreComps, precomp, precompiles, upgradeFile,
                   otherFrame, addrVars>>

\* lines 114-118: CaptureList over the precompiles still offered.
SelectPrecompile ==
    /\ wpc = "select"
    /\ \/ WizardReturn("err") /\ UNCHANGED precomp
       \/ /\ \E i \in 1..Len(allPreComps) : precomp' = allPreComps[i]
          /\ wpc' = "params" /\ UNCHANGED wresult
    /\ UNCHANGED <<allPreComps, precompiles, upgradeFile, otherFrame,
                   addrVars>>

\* lines 120-123, 189-208: promptParams asks for the activation time and the
\* parameters of the precompile and appends its upgrade to the list.
PromptParams ==
    /\ wpc = "params"
    /\ Len(precompiles) < MaxUpgrades
    /\ \/ WizardReturn("err") /\ UNCHANGED precompiles
       \/ /\ precompiles' = Append(precompiles, precomp)
          /\ wpc' = "another" /\ UNCHANGED wresult
    /\ UNCHANGED <<allPreComps, precomp, upgradeFile, otherFrame, addrVars>>

\* lines 134-139: the list without its first element equal to p.
Without(list, p) ==
    IF \E i \in 1..Len(list) : list[i] = p
      THEN LET i == CHOOSE i \in 1..Len(list) :
                       list[i] = p /\ \A j \in 1..(i - 1) : list[j] # p
           IN  SubSeq(list, 1, i - 1) \o SubSeq(list, i + 1, Len(list))
      ELSE list

\* line 125: if len(allPreComps) > 1
AsksAnother(list) == Len(list) > 1

\* lines 125-141: with more than one precompile offered the operator is
\* asked whether to configure another: no leaves the loop, yes takes the
\* precompile just configured off the list.  The loop then starts over.
AnotherPrecompile ==
    /\ wpc = "another"
    /\ IF AsksAnother(allPreComps)
         THEN \/ WizardReturn("err") /\ UNCHANGED allPreComps
              \/ wpc' = "write" /\ UNCHANGED <<allPreComps, wresult>>
              \/ /\ allPreComps' = Without(allPreComps, precomp)
                 /\ wpc' = "select" /\ UNCHANGED wresult
         ELSE wpc' = "select" /\ UNCHANGED <<allPreComps, wresult>>
    /\ UNCHANGED <<precomp, precompiles, upgradeFile, otherFrame, addrVars>>

\* lines 143-148: json.Marshal and app.WriteUpgradeFile.
WriteUpgradeFile ==
    /\ wpc = "write"
    /\ \/ WizardReturn("err") /\ UNCHANGED upgradeFile
       \/ upgradeFile' = precompiles /\ WizardReturn("nil")
    /\ UNCHANGED <<allPreComps, precomp, precompiles, otherFrame, addrVars>>

InitWizard ==
    /\ OnlyOther /\ NoAddresses
    /\ wpc = "start" /\ allPreComps = AllPreComps /\ precomp = ""
    /\ precompiles = <<>> /\ upgradeFile = <<>> /\ wresult = "none"

NextWizard ==
    \/ GenerateStart \/ SelectPrecompile \/ PromptParams
    \/ AnotherPrecompile \/ WriteUpgradeFile

SpecWizard == InitWizard /\ [][NextWizard]_vars

(***************************************************************************)
(* promptAdminManagerAndEnabledAddresses and captureAddress.               *)
(***************************************************************************)
EthAddrs == {"0xA", "0xB", "0xC"}

\* The lists prompts.CaptureListDecision can return.
AddrLists == UNION {[1..n -> EthAddrs] : n \in 0..MaxList}

\* lines 502-528: captureAddress(which, addrsField): an error (of a prompt,
\* or the list cancelled), or the field left as it is when the operator
\* answers no, or set to the list the operator gives.
CaptureAddress(field) ==
    {[err |-> TRUE, list |-> field]}
       \cup {[err |-> FALSE, list |-> field]}
       \cup {[err |-> FALSE, list |-> l] : l \in AddrLists}

\* lines 399-428: ensureHaveBalance(which, addresses, subnetName): nil for
\* no addresses, else nil or the error of the sidecar or of the balances.
EnsureHaveBalance(addresses) ==
    IF Len(addresses) < 1 THEN {FALSE} ELSE {FALSE, TRUE}

\* Shared with no address found in both lists.
SharedNever(xs, ys) == FALSE

\* lines 466-479, 485-492: an address of xs is a key of the map built of ys.
Shared(xs, ys) ==
    \E i \in 1..Len(xs) : \E j \in 1..Len(ys) : xs[i] = ys[j]

\* line 493: len(enabled) == 0 && len(admin) == 0 && len(manager) == 0
AllEmpty(a, m, e) == Len(e) = 0 /\ Len(a) = 0 /\ Len(m) = 0

AddrReturn(r) == apc' = "done" /\ aresult' = r

addrFrame == <<otherFrame, wizardVars, rounds>>

\* lines 450-452: captureAddress(adminLabel, &admin)
CaptureAdmin ==
    /\ apc = "admin"
    /\ \E c \in CaptureAddress(admin) :
          IF c.err THEN AddrReturn("err") /\ UNCHANGED admin
                   ELSE admin' = c.list /\ apc' = "adminBalance"
                        /\ UNCHANGED aresult
    /\ UNCHANGED <<manager, enabled, addrFrame>>

\* lines 454-456: ensureHaveBalance(adminLabel, admin, subnetName)
AdminBalance ==
    /\ apc = "adminBalance"
    /\ \E err \in EnsureHaveBalance(admin) :
          IF err THEN AddrReturn("err")
                 ELSE apc' = "manager" /\ UNCHANGED aresult
    /\ UNCHANGED <<admin, manager, enabled, addrFrame>>

\* lines 458-460: captureAddress(managerLabel, &manager)
CaptureManager ==
    /\ apc = "manager"
    /\ \E c \in CaptureAddress(manager) :
          IF c.err THEN AddrReturn("err") /\ UNCHANGED manager
                   ELSE manager' = c.list /\ apc' = "managerBalance"
                        /\ UNCHANGED aresult
    /\ UNCHANGED <<admin, enabled, addrFrame>>

\* lines 462-464: ensureHaveBalance(managerLabel, admin, subnetName)
ManagerBalance ==
    /\ apc = "managerBalance"
    /\ \E err \in EnsureHaveBalance(admin) :
          IF err THEN AddrReturn("err")
                 ELSE apc' = "managerCheck" /\ UNCHANGED aresult
    /\ UNCHANGED <<admin, manager, enabled, addrFrame>>

\* lines 466-479: no manager address may be an admin address.
CheckManager ==
    /\ apc = "managerCheck"
    /\ IF Shared(manager, admin)
         THEN AddrReturn("err")
         ELSE apc' = "enabled" /\ UNCHANGED aresult
    /\ UNCHANGED <<admin, manager, enabled, addrFrame>>

\* lines 481-483: captureAddress(enabledLabel, &enabled)
CaptureEnabled ==
    /\ apc = "enabled"
    /\ \E c \in CaptureAddress(enabled) :
          IF c.err THEN AddrReturn("err") /\ UNCHANGED enabled
                   ELSE enabled' = c.list /\ apc' = "enabledCheck"
                        /\ UNCHANGED aresult
    /\ UNCHANGED <<admin, manager, addrFrame>>

\* lines 485-499: no enabled address may be an admin or a manager address;
\* with the three lists empty the loop starts over, else the lists are
\* returned.
CheckEnabled ==
    /\ apc = "enabledCheck"
    /\ IF Shared(enabled, admin) \/ Shared(enabled, manager)
         THEN AddrReturn("err") /\ UNCHANGED rounds
         ELSE IF AllEmpty(admin, manager, enabled)
                THEN /\ rounds < MaxRounds
                     /\ rounds' = rounds + 1
                     /\ apc' = "admin" /\ UNCHANGED aresult
                ELSE AddrReturn("ok") /\ UNCHANGED rounds
    /\ UNCHANGED <<admin, manager, enabled, otherFrame, wizardVars>>

InitAddresses ==
    /\ OnlyOther /\ NoWizard
    /\ apc = "admin" /\ admin = <<>> /\ manager = <<>> /\ enabled = <<>>
    /\ rounds = 0 /\ aresult = "none"

NextAddresses ==
    \/ CaptureAdmin \/ AdminBalance \/ CaptureManager \/ ManagerBalance
    \/ CheckManager \/ CaptureEnabled \/ CheckEnabled

SpecAddresses == InitAddresses /\ [][NextAddresses]_vars

\* The command run with --force, a stored key and each of the amounts of
\* the conversion: the specification of the conversion.
InitConv ==
    /\ FlagsOf(ConvAmountFlts \cup {0})
    /\ force /\ keyName = "k1" /\ ~cmdline.ledger
    /\ txFee = 10
    /\ Alone

SpecConv == InitConv /\ [][Next]_vars

\* The command run with --force and a stored key against each of the
\* networks: the specification of the fee computations.
InitFees ==
    /\ Flags
    /\ force /\ keyName = "k1" /\ ~cmdline.ledger
    /\ txFee \in TxFees
    /\ Alone

SpecFees == InitFees /\ [][Next]_vars

TypeOK ==
    /\ pc \in {"start", "network", "direction", "chain", "signer", "amount",
               "keychain", "receiver", "summary", "confirm",
               "s_wallet", "s_build", "s_sign", "s_issue", "s_await",
               "r0_wallet", "r0_build", "r0_sign", "r0_issue", "r0_await",
               "r1_wallet", "r1_build", "r1_sign", "r1_issue", "r1_await",
               "r2_wallet", "r2_build", "r2_sign", "r2_issue", "r2_await",
               "ret", "done", "hung"}
    /\ receiveRecoveryStep \in Nat
    /\ inflight \in Ops \cup {"none"}
    /\ \A o \in Ops : carried[o] \in Int

(***************************************************************************)
(* Properties.                                                             *)
(***************************************************************************)

\* The positions of any step.
SendPcs == {"s_wallet", "s_build", "s_sign", "s_issue", "s_await"}
AnyStepPcs == SendPcs \cup StepPcs(0) \cup StepPcs(1) \cup StepPcs(2)

\* Receive step k failed in this invocation: its submission was rejected or
\* timed out, or the invocation returned from the step before submitting
\* (wallet, build or sign failure).
FailedAtStep(k) ==
    \/ outcome[StepOp(k)] \in {"Rejected", "Timeout"}
    \/ pc = "done" /\ retAt \in StepPcs(k) /\ outcome[StepOp(k)] = "none"

\* The invocation has touched an operation: made a wallet, built, signed or
\* issued something, or stands in a step.
Operated ==
    wallets > 0 \/ built # <<>> \/ signed # <<>> \/ issued # <<>>
    \/ pc \in AnyStepPcs

\* C1: the cursor of a receive workflow is past step k, having started at or
\* before k, only when the operation of step k was submitted and its
\* submission returned without error; it never moves back and never past 2.
C1_CursorAdvancedOnlyAfterAck ==
    /\ receiveRecoveryStep >= cmdline.step
    /\ receiveRecoveryStep > cmdline.step => receiveRecoveryStep <= 2
    /\ \A k \in 0..1 :
          (cmdline.step <= k /\ k < receiveRecoveryStep)
             => /\ InSeq(StepOp(k), issued)
                /\ outcome[StepOp(k)] = "nil"
                /\ inflight # StepOp(k)

C1_Witness ==
    /\ cmdline.step = 0 /\ receiveRecoveryStep = 2
    /\ outcome["ExportXP"] = "nil" /\ pc = "r2_wallet"

\* C2 (as stated): in a sequence of receive invocations, the first at cursor
\* 0 and each later one at the cursor the preceding failed one reported, no
\* step that the ledger has accepted is submitted again.
C2_NoAcceptedStepReissued == chain => reissued = {}

\* C2 (amended): in such a sequence no step whose submission was
\* acknowledged is submitted again, and a step the ledger accepted is
\* submitted again only when its submission had timed out.
C2_OnlyTimedOutStepsReissued ==
    chain => (~reissuedAcked /\ reissued \subseteq lost)

C2_Witness ==
    /\ chain /\ invocations = 2 /\ cmdline.step = 0
    /\ "ImportX" \in lost /\ "ImportX" \in reissued /\ "ImportX" \in acked
    /\ inflight = "ExportXP"

\* C3: when step k in {1, 2} of a receive fails (connection, build, sign,
\* rejection or timeout), the invocation has ended with an error, the cursor
\* is still k, no later step was built or submitted, and the notice tells
\* the operator to resume with step k.
C3_FailureReportsItsStep ==
    \A k \in {1, 2} :
       FailedAtStep(k)
          => /\ pc = "done" /\ result # "nil"
             /\ receiveRecoveryStep = k
             /\ resumeMsg = "withStep" /\ ResumeCursor = k
             /\ inflight = "none"
             /\ \A j \in (k + 1)..2 :
                   ~InSeq(StepOp(j), built) /\ ~InSeq(StepOp(j), issued)

C3_Witness ==
    /\ cmdline.step = 0 /\ pc = "done"
    /\ outcome["ImportP"] = "Timeout" /\ ResumeCursor = 2

\* C4: when the first sub-step of a receive started at cursor 0 fails, the
\* invocation has ended with an error, the notice says to use the same
\* command (cursor 0), the cursor is still 0, and nothing but the import on
\* the X-Chain was built or submitted.
C4_FirstStepFailureResumesAtZero ==
    FailedAtStep(0)
       => /\ pc = "done" /\ result # "nil"
          /\ cmdline.step = 0 /\ receiveRecoveryStep = 0
          /\ resumeMsg = "same" /\ ResumeCursor = 0
          /\ built \in {<<>>, <<"ImportX">>}
          /\ issued \in {<<>>, <<"ImportX">>}
          /\ inflight = "none"

C4_Witness ==
    /\ pc = "done" /\ outcome["ImportX"] = "Timeout"
    /\ resumeMsg = "same" /\ receiveRecoveryStep = 0

\* C5: a receive invoked with cursor 1 never builds or submits the import on
\* the X-Chain: it submits the export from the X-Chain and, only once that
\* is acknowledged, the import on the P-Chain.
C5_CursorOneSkipsFirstStep ==
    (cmdline.step = 1 /\ receive)
       => /\ ~InSeq("ImportX", built) /\ ~InSeq("ImportX", issued)
          /\ issued \in {<<>>, <<"ExportXP">>, <<"ExportXP", "ImportP">>}
          /\ InSeq("ImportP", built) => outcome["ExportXP"] = "nil"

C5_Witness ==
    /\ cmdline.step = 1 /\ receive /\ pc = "done" /\ result = "nil"
    /\ issued = <<"ExportXP", "ImportP">>

\* C6: within one invocation every operation is submitted at most once, and
\* once a submission has failed the invocation has ended with an error and
\* that submission is its last.
C6_NoRetry ==
    /\ \A op \in Ops : Count(op, issued) <= 1
    /\ \A op \in Ops :
          outcome[op] \in {"Rejected", "Timeout"}
             => /\ pc = "done" /\ result # "nil"
                /\ inflight = "none"
                /\ issued[Len(issued)] = op

C6_Witness ==
    /\ pc = "done" /\ outcome["ExportXP"] = "Timeout"
    /\ issued = <<"ImportX", "ExportXP">>

\* C7: nothing is built or submitted unless force is set or the confirmation
\* was asked, once, and answered yes; the confirmation is asked at most once
\* and never when force is set.
C7_ConfirmationGate ==
    /\ confirmAsked <= 1
    /\ force => confirmAsked = 0
    /\ Operated => (force \/ (confirmAsked = 1 /\ conf))

C7_Witness ==
    /\ ~force /\ confirmAsked = 1 /\ conf
    /\ cmdline.step = 2 /\ issued = <<"ImportP">>

\* C8: when the operator declines the confirmation the invocation has ended
\* at the gate with no wallet made, nothing built, signed or submitted, and
\* the cursor as the operator gave it.
C8_DeclineAborts ==
    (confirmAsked >= 1 /\ ~conf /\ result # "PromptError")
       => /\ pc = "done" /\ result = "nil" /\ retAt = "confirm"
          /\ wallets = 0 /\ built = <<>> /\ signed = <<>> /\ issued = <<>>
          /\ inflight = "none"
          /\ receiveRecoveryStep = cmdline.step

C8_Witness ==
    /\ pc = "done" /\ confirmAsked = 1 /\ ~conf /\ result = "nil"
    /\ receive /\ cmdline.step = 1

\* C9: a send to the P-Chain whose sender (the first address of the
\* keychain) is the receiver fails with the self-transfer error, with the
\* confirmation not asked, no wallet made and nothing built or submitted.
C9_SelfTransferFails ==
    (send /\ PToP /\ kc.addr # 0 /\ receiverAddr = kc.addr)
       => /\ pc = "summary" \/ (pc = "done" /\ result = "SelfTransfer")
          /\ confirmAsked = 0 /\ wallets = 0
          /\ built = <<>> /\ issued = <<>>

C9_Witness ==
    /\ pc = "done" /\ result = "SelfTransfer"
    /\ send /\ PToP /\ ~force /\ receiverAddr = kc.addr

\* C10 (as stated): when both a key name and a ledger index are given, for
\* every ledger index, the invocation ends at the flag checks (with the
\* credential-conflict error, or the error of two directions checked before
\* it) and the network is never resolved.
C10_CredentialConflictForEveryIndex ==
    (cmdline.key /\ cmdline.ledger)
       => /\ pc = "start"
             \/ (pc = "done" /\ result \in {"CredentialConflict", "BothDirections"})
          /\ ~networkOK

\* The positions of transferF up to and including the resolution of the
\* amount.
BeforeAmountPcs ==
    {"start", "network", "direction", "chain", "signer", "amount"}

\* C11 (as stated): an invocation whose amount is <= 0 never gets past the
\* resolution of the amount: it converts nothing to an unsigned amount,
\* builds and submits nothing, and ends there with an error.
C11_NonPositiveAmountRejected ==
    amountFlt <= 0
       => /\ pc \in BeforeAmountPcs
             \/ (pc = "done" /\ retAt \in BeforeAmountPcs /\ result # "nil")
          /\ amount = 0
          /\ built = <<>> /\ issued = <<>>

\* The positions of transferF up to and including the summary.
BeforeConfirmPcs == BeforeAmountPcs \cup {"keychain", "receiver", "summary"}

\* The summary, with the total fee, has been printed for the operator.
SummaryShown ==
    /\ pc \notin BeforeConfirmPcs
    /\ pc = "done" => retAt \notin BeforeConfirmPcs

\* C12: once the summary of a send is shown, the total fee it shows is
\* exactly 4 * f when the destination is the P-Chain (Primary) and 2 * f when
\* it is the X-Chain (Secondary), f being the fee of the network.
C12_TotalFeeTable ==
    (send /\ SummaryShown)
       => /\ fee = txFee
          /\ PToX => totalFee = 2 * txFee
          /\ ~PToX => PToP /\ totalFee = 4 * txFee

C12_Witness ==
    /\ send /\ PToP /\ ~PToX /\ pc = "s_wallet"
    /\ txFee = 1000000 /\ totalFee = 4000000

\* C13: once a send has computed the amount of its export, that amount plus
\* the one fee the export itself pays is amount + 4 * fee for the P-Chain
\* and amount + 2 * fee for the X-Chain, and it is the amount plus the total
\* fee the summary showed.
C13_TotalDebit ==
    (send /\ (InSeq("ExportPX", built) \/ retAt = "s_build"))
       => /\ SummaryShown
          /\ amountPlusFee + fee = amount + totalFee
          /\ PToX => amountPlusFee + fee = amount + 2 * txFee
          /\ ~PToX => amountPlusFee + fee = amount + 4 * txFee

C13_Witness ==
    /\ send /\ PToP /\ ~PToX /\ amountFlt = 1500000000 /\ txFee = 10
    /\ outcome["ExportPX"] = "nil"
    /\ amount = 1500000000 /\ amountPlusFee + fee = 1500000040

\* The step of the receive workflow an operation belongs to.
OpStep(op) ==
    CASE op = "ImportX" -> 0
      [] op = "ExportXP" -> 1
      [] op = "ImportP" -> 2
      [] OTHER -> 0 - 1

\* The submissions of the invocation that have not returned.
Pending == {i \in 1..Len(issued) : outcome[issued[i]] = "none"}

\* C14: a send builds and submits nothing but the export from the P-Chain,
\* and exactly that one when it runs to its end; a receive to the P-Chain
\* started at cursor 0 that runs to its end has submitted the import on the
\* X-Chain, the export from the X-Chain and the import on the P-Chain, in
\* this order, each acknowledged; the operations of a receive are submitted
\* in the order of their steps; a step is built only when every submission
\* before it has returned acknowledged, and at most one submission is in
\* flight.
C14_OperationsFollowDirection ==
    /\ send => /\ built \in {<<>>, <<"ExportPX">>}
               /\ issued \in {<<>>, <<"ExportPX">>}
    /\ (send /\ pc = "done" /\ retAt = "ret")
          => issued = <<"ExportPX">> /\ outcome["ExportPX"] = "nil"
    /\ (receive /\ ~PToX /\ cmdline.step = 0 /\ pc = "done" /\ retAt = "ret")
          => /\ issued = <<"ImportX", "ExportXP", "ImportP">>
             /\ \A k \in 0..2 : outcome[StepOp(k)] = "nil"
    /\ receive
          => \A i \in 1..Len(issued) :
                /\ OpStep(issued[i]) >= 0
                /\ i > 1 => OpStep(issued[i]) = OpStep(issued[i - 1]) + 1
    /\ Len(issued) <= Len(built) /\ Len(built) <= Len(issued) + 1
    /\ \A i \in 1..Len(issued) : issued[i] = built[i]
    /\ \A i \in 2..Len(built) : outcome[built[i - 1]] = "nil"
    /\ Cardinality(Pending) <= 1
    /\ inflight # "none" <=> Pending # {}

C14_Witness ==
    /\ receive /\ ~PToX /\ cmdline.step = 0
    /\ pc = "done" /\ retAt = "ret" /\ result = "nil"
    /\ issued = <<"ImportX", "ExportXP", "ImportP">>

\* C15 (as stated): a receive to the X-Chain, whatever recovery step the
\* operator passes, never builds or submits the export from the X-Chain or
\* the import on the P-Chain.
C15_SecondaryReceiveIsOneImport ==
    (receive /\ PToX /\ ~PToP)
       => \A op \in {"ExportXP", "ImportP"} :
             ~InSeq(op, built) /\ ~InSeq(op, issued)

\* C16 (as stated): whenever a receive stands in its workflow (past the
\* confirmation: in a step, at the final return, or ended there) the cursor
\* is 0, 1 or 2; a recovery step outside this set never gets that far.
C16_CursorInRange ==
    (receive /\ SummaryShown /\ pc # "confirm" /\ retAt # "confirm")
       => receiveRecoveryStep \in {0, 1, 2}

\* C17 (as stated): a receive started with cursor 2 submits no operation.
C17_CursorTwoSubmitsNothing ==
    (receive /\ cmdline.step = 2) => built = <<>> /\ issued = <<>>

\* C17 (amended): a receive started with cursor 2 builds and submits nothing
\* but the import on the P-Chain, at most once, and when it runs to its end
\* that import was submitted and acknowledged; the cursor stays 2.
C17_CursorTwoIsFinalImport ==
    (receive /\ cmdline.step = 2)
       => /\ built \in {<<>>, <<"ImportP">>}
          /\ issued \in {<<>>, <<"ImportP">>}
          /\ receiveRecoveryStep = 2
          /\ (pc = "done" /\ retAt = "ret")
                => issued = <<"ImportP">> /\ outcome["ImportP"] = "nil"

C17_Witness ==
    /\ receive /\ cmdline.step = 2 /\ invocations = 1
    /\ pc = "done" /\ retAt = "ret" /\ result = "nil"
    /\ issued = <<"ImportP">> /\ accepted["ImportP"] = 1

\* C18: for every operation of a send or a receive, the submission is
\* reported as timed out exactly when the context of its call had expired
\* (the ledger may or may not have accepted the operation), and as rejected
\* when it failed with the context alive (the ledger did not accept it);
\* the invocation ends with that same outcome, and an acknowledged
\* submission is reported as neither.
C18_TimeoutIffContextExpired ==
    \A op \in Ops :
       /\ expired[op] <=> outcome[op] = "Timeout"
       /\ outcome[op] \in {"Timeout", "Rejected"}
             => pc = "done" /\ result = outcome[op]
       /\ (outcome[op] = "Rejected" /\ accepted[op] > 0)
             => (op \in acked \/ op \in lost)
       /\ outcome[op] = "nil" => op \in acked

C18_Witness ==
    /\ pc = "done" /\ result = "Timeout" /\ invocations = 2
    /\ expired["ImportX"] /\ outcome["ImportX"] = "Timeout"
    /\ accepted["ImportX"] = 1 /\ outcome["ExportPX"] = "none"
    /\ "ImportX" \in lost

\* The positions of the wallet connections and of the signatures.
WalletPcs == {"s_wallet", "r0_wallet", "r1_wallet", "r2_wallet"}
SignPcs == {"s_sign", "r0_sign", "r1_sign", "r2_sign"}

\* C19 (as stated): no invocation stays for ever in a call to the endpoint:
\* every wallet connection and every submission returns, at the latest when
\* its context expires.
C19_NetworkCallsReturn ==
    ~(pc = "hung" /\ hungAt \in WalletPcs)

\* C20 (as stated): no invocation signing with the ledger stays for ever in
\* the sign call: when the confirmation on the device never comes the call
\* expires and the invocation ends with the signer-unavailable error.
C20_LedgerSignReturns ==
    ~(pc = "hung" /\ hungAt \in SignPcs /\ kc.ledger)

\* C21 (as stated): once the summary is shown, for a send and for a receive,
\* it has printed the amount, the total fee, the source address and the
\* destination address.
C21_SummaryComplete ==
    SummaryShown => {"amount", "fee", "source", "target"} \subseteq shown

C23_ConversionExact ==
    (amountFlt > 0 /\ pc \notin BeforeAmountPcs
        /\ (pc = "done" => retAt \notin BeforeAmountPcs))
       => /\ amount = amountFlt
          /\ DisplayNano(amount) = amountFlt

\* The result determineAvagoVersion gave, and the results it gives on the
\* cases of the test.
AvagoResult == [version |-> avagoVersion, err |-> avagoErr]
AvagoTestPasses(t) ==
    DetermineAvagoVersionOf(t.userAvago, t.sidecars)
       = [version |-> t.expectedAvago, err |-> t.expectedErr]

C26_OneDestinationChain ==
    (SummaryShown \/ built # <<>>) => (PToP # PToX)

\* C29 (as stated): a confirmed receive with one destination chain returns
\* nil only when the import on its destination chain (on the X-Chain for
\* the X-Chain, on the P-Chain for the P-Chain) was acknowledged in this
\* invocation; one that submitted nothing never returns nil.
C29_SuccessMeansTerminalAck ==
    (receive /\ PToP # PToX /\ (force \/ conf)
        /\ pc = "done" /\ result = "nil")
       => /\ outcome[IF PToX THEN "ImportX" ELSE "ImportP"] = "nil"
          /\ issued # <<>>

\* C30: an invocation with both --send and --receive ends at the first flag
\* check, with the network not resolved; past the direction prompt, and so
\* whenever a wallet is made or an operation is built, signed or submitted,
\* exactly one of send and receive is true.
C30_OneDirection ==
    /\ (send /\ receive)
          => /\ pc = "start"
                \/ (pc = "done" /\ retAt = "start"
                                /\ result = "BothDirections")
             /\ ~networkOK /\ ~Operated
    /\ (pc \notin {"start", "network", "direction"}
           /\ (pc = "done" => retAt \notin {"start", "network", "direction"}))
          => send # receive
    /\ Operated => send # receive

C30_Witness ==
    /\ ~send /\ receive /\ built = <<"ImportX">>
    /\ invocations = 1 /\ pc = "r0_sign" /\ ~force

\* The receive to the P-Chain is settled: the invocation returned nil and
\* the three operations were acknowledged.
Settled ==
    /\ pc = "done" /\ result = "nil"
    /\ {"ImportX", "ExportXP", "ImportP"} \subseteq acked

\* C27 (as stated): when the operator resumes after every failed invocation
\* with the recovery step reported, and what is attempted again and again
\* eventually succeeds, a receive to the P-Chain is eventually settled with
\* its three operations acknowledged.
C27_ResumeEventuallySettles == (receive /\ ~send) => <>Settled

\* The four operations of a transfer to the P-Chain were each accepted once
\* and acknowledged, and the receive has returned nil.
TransferSettled ==
    /\ Settled /\ receive /\ PToP /\ ~PToX
    /\ "ExportPX" \in acked
    /\ \A op \in Ops : accepted[op] = 1

\* What the operations of the transfer paid in fees, what is left on the
\* X-Chain, and what the sender was debited.
FeesPaid == txFee * (accepted["ExportPX"] + accepted["ImportX"]
                       + accepted["ExportXP"] + accepted["ImportP"])
ResidualX == carried["ImportX"] - (carried["ExportXP"] + txFee)
SenderDebit == carried["ExportPX"] + txFee

\* C28: when the export of the send and the three steps of the receive are
\* all acknowledged, for the same amount and fee, the four operations pay
\* four fees, the receiver gains the amount on the P-Chain and nothing is
\* left on the X-Chain: the send exports amount + 3 fees, the receive
\* exports amount + 1 fee again.
C28_ValueConserved ==
    TransferSettled
       => /\ FeesPaid = 4 * txFee
          /\ carried["ImportP"] = amount
          /\ ResidualX = 0
          /\ carried["ExportPX"] = amount + 3 * txFee
          /\ carried["ExportXP"] = amount + txFee
          /\ SenderDebit = amount + FeesPaid

C28_Witness ==
    /\ TransferSettled /\ txFee = 10
    /\ amount = 1500000000 /\ carried["ImportP"] = 1500000000
    /\ carried["ImportX"] = 1500000020

\* C31 (as stated): in an invocation that has reached a step, the keychain is
\* that of the ledger device exactly when the ledger indication passed to
\* the step executors and tested for the sign notices is true.
C31_SignerAgreesWithIndication ==
    Operated => (kc.ledger <=> UsingLedger(ledgerIndex))

\* C32: in a receive every operation that is built (the import on the
\* X-Chain, the export from it, the import on the P-Chain) has for output
\* owners the first address of the signer's keychain with threshold 1,
\* whatever target address was given.
C32_ReceiveOwnerIsSigner ==
    (receive /\ ~send)
       => \A op \in Ops :
             IF InSeq(op, built)
               THEN owners[op] = [threshold |-> 1, addrs |-> <<kc.addr>>]
               ELSE owners[op] = NoOwners

C32_Witness ==
    /\ receive /\ ~send /\ kc.addr = 1
    /\ built = <<"ImportX", "ExportXP", "ImportP">>
    /\ \A op \in {"ImportX", "ExportXP", "ImportP"} :
          owners[op] = [threshold |-> 1, addrs |-> <<1>>]

\* C33 (as stated): the amount of the export of a send (amount + 3 fees, or
\* amount + 1 fee to the X-Chain) and of the export of a receive (amount +
\* 1 fee) is never below the amount asked for.
C33_SumsNeverWrap ==
    sumOut # <<>> => Geq64(sumOut, sumIn.amount)

\* C34 (as stated): what an invocation submits follows from its own command
\* line and the outcomes of its own steps, also when it runs in a process
\* that has run the command before: a receive starts with the operation of
\* the recovery step of its command line, and one that, confirmed, returns
\* nil from recovery step 0 to the P-Chain has submitted the three
\* operations.
C34_InvocationDeterminedByInputs ==
    receive
       => /\ issued # <<>> => issued[1] = StepOp(cmdline.step)
          /\ (/\ ~PToX /\ cmdline.step = 0 /\ (force \/ conf)
              /\ pc = "done" /\ result = "nil")
                => issued = <<"ImportX", "ExportXP", "ImportP">>

\* No precompile has two entries in the list.
NoTwoEntries(list) ==
    \A i, j \in 1..Len(list) : list[i] = list[j] => i = j

\* C35 (as stated): the wizard configures each precompile at most once; the
\* list of upgrades, and the list written to the upgrade file, never holds
\* two entries for one precompile.
C35_EachPrecompileOnce ==
    NoTwoEntries(precompiles) /\ NoTwoEntries(upgradeFile)

\* C36 (as stated): the selection loop ends after at most five precompiles
\* are configured: a sixth is never configured, and when the five are
\* configured the operator is not asked to select again.
C36_WizardTerminates ==
    /\ Len(precompiles) <= Len(AllPreComps)
    /\ Len(precompiles) = Len(AllPreComps) => wpc \notin {"select", "params"}

\* The addresses of a list.
AddrsOf(list) == {list[i] : i \in 1..Len(list)}

\* The three lists share no address.
RolesDisjoint ==
    /\ AddrsOf(admin) \cap AddrsOf(manager) = {}
    /\ AddrsOf(admin) \cap AddrsOf(enabled) = {}
    /\ AddrsOf(manager) \cap AddrsOf(enabled) = {}

\* C37: when promptAdminManagerAndEnabledAddresses returns without error the
\* admin, manager and enabled lists share no address and are not all empty;
\* it never goes on past a check with an address in two lists; and with the
\* three lists empty it asks again.
C37_RolesDisjointAndNotEmpty ==
    /\ [](/\ aresult = "ok"
             => /\ RolesDisjoint
                /\ AddrsOf(admin) \cup AddrsOf(manager) \cup AddrsOf(enabled) # {}
          /\ apc \in {"enabled", "enabledCheck"}
                => AddrsOf(admin) \cap AddrsOf(manager) = {})
    /\ [][(/\ apc = "enabledCheck" /\ apc' # "enabledCheck"
           /\ AddrsOf(admin) \cup AddrsOf(manager) \cup AddrsOf(enabled) = {})
            => (apc' = "admin" /\ aresult' = "none")]_vars

C37_Witness ==
    /\ apc = "done" /\ aresult = "ok" /\ rounds = 1
    /\ admin = <<"0xA">> /\ manager = <<"0xB">> /\ enabled = <<"0xC", "0xC">>

=============================================================================
